---- MODULE Spec2Model ----
(***************************************************************************)
(* A model of the video slider front end: the draggable divider            *)
(* (frontend/shared/Slider.svelte), the synchronised preview               *)
(* (frontend/shared/VideoSliderPreview.svelte) and the play/pause control  *)
(* of one player (frontend/shared/Player.svelte).                          *)
(*                                                                         *)
(* Numbers.  A JavaScript number is a record [k, v]: k is "fin", "nan",    *)
(* "pinf" or "ninf" and v is the value of a finite number in units of      *)
(* 10^-5 (the precision the slider rounds to).  The normalized position    *)
(* 0.5 is Fin(50000); the pixel offset 300px is Fin(300 * 10^5).  Pointer  *)
(* coordinates and measured widths are whole pixels, kept as integers.     *)
(* Media times are integers in hundredths of a second.                     *)
(***************************************************************************)
EXTENDS Integers, Sequences, FiniteSets, TLC

(***************************************************************************)
(* Bounds of the model.                                                    *)
(***************************************************************************)
\* the pointer can leave the wrapper by Margin pixels on either side
Margin == 2
\* the gesture's largest distance from its down point is recorded up to DistCap
DistCap == 4

(***************************************************************************)
(* Program constants.                                                      *)
(***************************************************************************)
\* round(..., 5) in update_position
Points == 5
\* Math.abs(event.x - drag_start_x) > 3 in drag_move
DragThreshold == 3

Pow10(points) == 10 ^ points
Scale == Pow10(Points)

(***************************************************************************)
(* JavaScript numbers.                                                     *)
(***************************************************************************)
Fin(v) == [k |-> "fin", v |-> v]
NaN == [k |-> "nan", v |-> 0]
\* an uninitialised `let` of the component
Undefined == [k |-> "undef", v |-> 0]

Abs(n) == IF n < 0 THEN 0 - n ELSE n
IntMin(a, b) == IF a < b THEN a ELSE b
IntMax(a, b) == IF a < b THEN b ELSE a

\* a < b for two numbers that are not NaN
NumLess(a, b) ==
    CASE a.k = "ninf" -> b.k # "ninf"
      [] a.k = "pinf" -> FALSE
      [] OTHER -> \/ b.k = "pinf"
                  \/ b.k = "fin" /\ a.v < b.v

\* Math.max and Math.min: NaN if either argument is NaN
MathMax(a, b) ==
    IF a.k = "nan" \/ b.k = "nan" THEN NaN ELSE IF NumLess(a, b) THEN b ELSE a
MathMin(a, b) ==
    IF a.k = "nan" \/ b.k = "nan" THEN NaN ELSE IF NumLess(b, a) THEN b ELSE a

\* a / b for whole numbers a, b with b >= 0, as an exact fraction or an IEEE special
Quot(a, b) ==
    IF b = 0
    THEN [k |-> IF a = 0 THEN "nan" ELSE IF a > 0 THEN "pinf" ELSE "ninf",
          num |-> 0, den |-> 1]
    ELSE [k |-> "fin", num |-> a, den |-> b]

\* width * pc + left, for whole pixels width >= 0 and left, in units of 10^-5 px
Affine(width, pc, left) ==
    CASE pc.k = "fin" -> Fin(width * pc.v + left * Scale)
      [] pc.k = "nan" -> NaN
      [] OTHER -> IF width = 0 THEN NaN ELSE pc

(***************************************************************************)
(* Slider.svelte: pure functions.                                          *)
(***************************************************************************)
clamp(value, min, max) == MathMin(MathMax(value, min), max)

\* Math.round((n + Number.EPSILON) * mod) / mod: the nearest multiple of
\* 10^-points, a tie going up; n is the fraction Quot gives
round_floor(n, points) ==
    IF n.k # "fin" THEN [k |-> n.k, v |-> 0]
    ELSE Fin((n.num * Pow10(points)) \div n.den)

round(n, points) ==
    IF n.k # "fin" THEN [k |-> n.k, v |-> 0]
    ELSE Fin((2 * n.num * Pow10(points) + n.den) \div (2 * n.den))

(***************************************************************************)
(* State.                                                                  *)
(***************************************************************************)
VARIABLES
    \* -- Slider.svelte
    position,        \* prop `position`, a number in units of 10^-5
    disabled,        \* prop `disabled`
    image_size,      \* prop `image_size`: [left, width] in pixels
    px,              \* the handle's pixel offset, a number in units of 10^-5 px
    active,          \* true while the handle is being dragged
    container_width, \* measured width of the wrapper, in pixels
    drag_start_x,    \* event.x of the last accepted pointer-down, or Undefined
    was_dragged,     \* the drag-versus-click flag
    mounted,         \* onMount has run: el, parent_el and the drag handlers exist
    dom,             \* the laid-out boxes: [parent, el] widths in pixels
    pointer,         \* d3-drag's gesture: "up", or "down" between start and end
    \* -- what the last step did (observations, read by no handler)
    last,            \* the handler that ran last
    last_x,          \* event.x of the last pointer-down or pointer-move not dropped
    clicks,          \* the number of 'click' events it dispatched
    gesture,         \* [down_x, maxd, enabled] of the gesture in progress or just ended
    \* -- VideoSliderPreview.svelte
    video1_el,       \* TRUE once the master <video> element is bound
    video2_el,       \* TRUE once the slave <video> element is bound
    media,           \* media[i]: [currentTime, paused, loaded, stale] of the element
                     \* video<i>_el names
    video_is_ready,
    initial_autoplay_done,
    autoplay,        \* prop `autoplay`
    value,           \* prop `value`, bound to Index's: <<>> for null, or a pair of sources
    view,            \* what the preview renders: "empty" or "players"
    interactive,     \* prop `interactive` of the preview
    style,           \* the clip of each player's wrapper: [primary, secondary]
    \* -- Index.svelte
    old_value,       \* the value recorded at the last 'change'
    index_position,  \* prop `position` of Index, on the backend's scale of 0 to 100
    \* -- observations of the preview
    step,            \* what the last step did to the media: [sync, pre, calls]
    autoplay_plays,  \* play() calls the autoplay block has issued so far (up to MaxCount)
    ready_events,    \* loadeddata events handled so far (up to MaxCount)
    host,            \* the events the last step dispatched to Gradio, in order
    undisturbed,     \* so far only first binds, loadeddata and playback; no play() rejected
    rejections,      \* rejections[h]: the controller's play() calls on handle h that were
                     \* rejected since the last toggle, change of the master's paused
                     \* flag or new element of h (up to MaxCount)
    answers,         \* what the master element answered when toggle_playback last ran:
                     \* [ended, have_data]
    watch,           \* whether this run keeps rejections and answers (it never changes)
    \* -- the two conversions of Slider.svelte applied to chosen inputs
    probe            \* [stage, pn, pd, img, cw, xn, back]: see "The conversions alone"

slider_vars == <<position, disabled, image_size, px, active, container_width,
                 drag_start_x, was_dragged, mounted, dom, pointer>>
preview_vars == <<video1_el, video2_el, media, video_is_ready, initial_autoplay_done,
                  autoplay, value, view, interactive>>
index_vars == <<old_value, index_position>>
obs_vars == <<last, last_x, clicks, gesture, step, autoplay_plays, ready_events, host,
              undisturbed, rejections, answers, watch>>
vars == <<slider_vars, preview_vars, style, index_vars, obs_vars, probe>>

(***************************************************************************)
(* The inputs.                                                             *)
(***************************************************************************)
\* the width of the small wrapper, in pixels
SmallWidth == 10

\* event.x, relative to the wrapper; a drag may leave the wrapper on either side
PointerXs ==
    {0 - Margin, 0, 3, 4, 7, SmallWidth, 300, 340, 600 + Margin}

\* `image_size` as the parent passes it: the default, or the box of the worked
\* example (left 100, width 400, in a wrapper 600 wide)
ImageSizes ==
    { [left |-> 0, width |-> 0],
      [left |-> 100, width |-> 400] }

\* the boxes the browser can lay out: hidden, small, the scenario's
DomLayouts ==
    { [parent |-> 0, el |-> 0],
      [parent |-> SmallWidth, el |-> SmallWidth - 3],
      [parent |-> 600, el |-> 400] }

(***************************************************************************)
(* Slider.svelte: functions of the component.                              *)
(***************************************************************************)
\* parent_el?.getBoundingClientRect().width || 0, and the same for el
parent_rect_width(m) == IF m THEN dom.parent ELSE 0
el_rect_width(m) == IF m THEN dom.el ELSE 0

\* set_position(width) with the elements bound or not (m): the new
\* container_width, image_size and px
set_position(width, img, pos, m) ==
    LET cw == parent_rect_width(m)
        img2 == IF width = 0 THEN [img EXCEPT !.width = el_rect_width(m)] ELSE img
    IN  [container_width |-> cw,
         image_size |-> img2,
         px |-> clamp(Affine(img2.width, pos, img2.left), Fin(0), Fin(cw * Scale))]

\* the handler's set_position(image_size.width), then the reactive statement
\* `$: set_position(image_size.width)` that the assignment to image_size.width
\* schedules
set_position_flush(img, pos, m) ==
    LET s1 == set_position(img.width, img, pos, m)
    IN  IF img.width = 0 THEN set_position(s1.image_size.width, s1.image_size, pos, m)
        ELSE s1

update_position(x) ==
    [px |-> clamp(Fin(x * Scale), Fin(0), Fin(container_width * Scale)),
     position |-> round(Quot(x - image_size.left, image_size.width), Points)]

update_position_from_pc(pc) ==
    clamp(Affine(image_size.width, pc, image_size.left), Fin(0), Fin(container_width * Scale))

\* Math.abs(event.x - drag_start_x) > 3; the difference is NaN, and the
\* comparison false, while drag_start_x is undefined
exceeds_threshold_geq(x, start) ==
    start.k = "fin" /\ Abs(x - start.v) >= DragThreshold

exceeds_threshold(x, start) ==
    start.k = "fin" /\ Abs(x - start.v) > DragThreshold

\* drag_end: `if (!was_dragged) dispatch("click", ...)`, the number of clicks dispatched
click_always(dragged) == 1

click_unless_dragged(dragged) == IF ~dragged THEN 1 ELSE 0

\* px after the handler's update u and the reactive statement
\* `$: update_position_from_pc(position)`, which runs if position changed
px_after_flush(u) ==
    IF u.position # position THEN update_position_from_pc(u.position) ELSE u.px

(***************************************************************************)
(* The gesture observed: where it went down, how far it got from there     *)
(* (up to DistCap), and whether the slider was enabled at each event.      *)
(***************************************************************************)
NoGesture == [down_x |-> 0, maxd |-> 0, enabled |-> FALSE]

(***************************************************************************)
(* VideoSliderPreview.svelte and Player.svelte: the media elements.        *)
(***************************************************************************)
\* Math.abs(video1_el.currentTime - video2_el.currentTime) > 0.1, in hundredths
Tolerance == 10
\* the counters of the observations stop at MaxCount
MaxCount == 2

\* currentTime values: a fresh element's 0, and 9.80, 9.90 and 10.00 s
Times == {0, 980, 990, 1000}

\* a <video> element just created: at the start, paused, no frame loaded yet;
\* stale becomes true when the Player that holds the element is destroyed
FreshElement == [currentTime |-> 0, paused |-> TRUE, loaded |-> FALSE, stale |-> FALSE]
FreshMedia == [i \in {1, 2} |-> FreshElement]

\* HTMLMediaElement.play(): the element starts playing, or the promise is
\* rejected (autoplay policy, unsupported source) and the element stays as it is
play(m, i, ok) == IF ok THEN [m EXCEPT ![i].paused = FALSE] ELSE m
\* HTMLMediaElement.pause()
pause(m, i) == [m EXCEPT ![i].paused = TRUE]

\* one call on element v: op is "play", "pause" or "seek"; ok is FALSE for a
\* rejected play(); caught says whether the call site handles the rejection;
\* by names the code that made the call
Call(v, op, ok, caught, by) ==
    [v |-> v, op |-> op, ok |-> ok, caught |-> caught, by |-> by]

NoStep == [sync |-> FALSE, pre |-> FreshMedia, calls |-> <<>>]

Bump(n) == IntMin(MaxCount, n + 1)

\* one of the calls was a play() whose promise was rejected
Rejected(calls) ==
    \E n \in 1 .. Len(calls) : calls[n].op = "play" /\ ~calls[n].ok

\* the play() calls among `calls` that toggle_playback, the sync block or the
\* autoplay block made on element h
ControllerPlays(calls, h) ==
    {n \in 1 .. Len(calls) :
        /\ calls[n].by \in {"toggle", "sync", "autoplay"}
        /\ calls[n].op = "play"
        /\ calls[n].v = h}

\* the master element's answers while no toggle is being handled
NoAnswers == [ended |-> FALSE, have_data |-> TRUE]

\* JavaScript's null, as a source of the pair
Null == "null"
\* the values: null, or a pair whose sources are null or the files "a" and "b"
Values ==
    { <<>>, <<Null, Null>>, <<"a", Null>>, <<Null, "b">>, <<"a", "b">> }
ClearedValue == <<Null, Null>>

\* JSON.stringify(value), token by token
Json(v) == IF v = <<>> THEN <<"null">> ELSE <<"[", v[1], ",", v[2], "]">>

\* {#if value === null || value[0] === null || value[1] === null} Empty {:else} players
render(v) ==
    IF v = <<>> \/ v[1] = Null \/ v[2] = Null THEN "empty" ELSE "players"

\* Index.svelte's reactive block: whether 'change' is due for value v
change_due_always(v, old) == TRUE

change_due(v, old) == Json(v) # Json(old)

\* Index.svelte: Math.max(0, Math.min(100, position)) / 100, for a whole position
normalised_unclamped(P) == Fin(P * (Scale \div 100))

normalised_slider_position(P) ==
    Fin(MathMax(Fin(0), MathMin(Fin(100), Fin(P))).v * (Scale \div 100))

\* the preview's `clip-path: inset(0 0 0 ${position * 100}%)` on the second
\* player's wrapper, as the percentage in units of 10^-5; the first player's
\* wrapper has no style
NoClip == [k |-> "none", v |-> 0]
clip_style(pos) ==
    [primary |-> NoClip,
     secondary |-> IF pos.k = "fin" THEN Fin(pos.v * 100) ELSE pos]

\* The {#if} block goes from the players (was) to what it renders now: the
\* Players are destroyed when the placeholder takes their place, the browser
\* pauses the elements it removes from the document, and the handles go on
\* naming them.
destroy_players(m, el1, el2, was, now) ==
    IF was = "players" /\ now = "empty"
    THEN [i \in {1, 2} |->
            IF (IF i = 1 THEN el1 ELSE el2)
            THEN [m[i] EXCEPT !.stale = TRUE, !.paused = TRUE]
            ELSE m[i]]
    ELSE m

\* toggle_playback's guard: `if (!video1_el || !video2_el) return`
handles_missing_master_only(el1, el2) == ~el1

handles_missing(el1, el2) == ~el1 \/ ~el2

\* the reactive block's first condition
autoplay_due_unlatched(el1, ready, auto, done) == el1 /\ ready /\ auto

autoplay_due(el1, ready, auto, done) == el1 /\ ready /\ auto /\ ~done

\* the latch after the autoplay block: `initial_autoplay_done = true` follows
\* the play() call whatever becomes of its promise (ok)
latch_never(done, due, ok) == done

latch_after_success_only(done, due, ok) == done \/ (due /\ ok)

latch_after(done, due, ok) == done \/ due

\* the reactive block's time comparison
drifted_behind_only(t1, t2) == t1 - t2 > Tolerance

drifted(t1, t2) == Abs(t1 - t2) > Tolerance

\* the call that brings the slave to the master's paused state p1
mirror_op_swapped(p1) == IF p1 THEN "play" ELSE "pause"

mirror_op(p1) == IF p1 THEN "pause" ELSE "play"

\* the time correction: `video2_el.currentTime = video1_el.currentTime`
seek_laggard(m) ==
    IF m[1].currentTime < m[2].currentTime
    THEN [m EXCEPT ![1].currentTime = m[2].currentTime]
    ELSE [m EXCEPT ![2].currentTime = m[1].currentTime]

seek_slave(m) == [m EXCEPT ![2].currentTime = m[1].currentTime]

\* The reactive block `$: { ... }`, run with the handles el1, el2, the flags and
\* the media m; ok_auto and ok_sync are the outcomes of the play() calls it may
\* make.  The result: the latch, the media, and the step observed.
reactive_block(el1, el2, ready, auto, done, m, ok_auto, ok_sync) ==
    LET due == autoplay_due(el1, ready, auto, done)
        m1 == IF due THEN play(m, 1, ok_auto) ELSE m
        c1 == IF due THEN <<Call(1, "play", ok_auto, TRUE, "autoplay")>> ELSE <<>>
        both == el1 /\ el2
        seek == both /\ drifted(m1[1].currentTime, m1[2].currentTime)
        m2 == IF seek THEN seek_slave(m1) ELSE m1
        c2 == IF seek THEN <<Call(2, "seek", TRUE, TRUE, "sync")>> ELSE <<>>
        mirror == both /\ m2[1].paused # m2[2].paused
        op == mirror_op(m2[1].paused)
        m3 == IF ~mirror THEN m2
              ELSE IF op = "pause" THEN pause(m2, 2) ELSE play(m2, 2, ok_sync)
        c3 == IF ~mirror THEN <<>>
              ELSE <<Call(2, op, (op = "pause") \/ ok_sync, TRUE, "sync")>>
    IN  [done |-> latch_after(done, due, ok_auto),
         media |-> m3,
         autoplayed |-> due,
         step |-> [sync |-> both,
                   pre |-> IF both THEN m1 ELSE FreshMedia,
                   calls |-> c1 \o c2 \o c3]]

\* the outcomes that matter to a run of the block: a play() that is not made
\* has no outcome
Outcomes == BOOLEAN \X BOOLEAN

\* no conversion is being probed
NoProbe ==
    [stage |-> "none", pn |-> 0, pd |-> 1, img |-> [left |-> 0, width |-> 0],
     cw |-> 0, xn |-> 0, back |-> Fin(0)]

\* the preview's reactive `$: style`, which follows the position bound to the slider's
StyleFollows == style' = clip_style(position')

\* the rejected play() calls counted after a step of the preview; fresh holds
\* the handles that were given a new element in the step
RejectionsFollow(fresh) ==
    rejections' =
       [h \in {1, 2} |->
          LET anew == \/ last' = "toggle_playback"
                      \/ media'[1].paused # media[1].paused
                      \/ h \in fresh
              before == IF anew THEN 0 ELSE rejections[h]
              now == Cardinality({n \in ControllerPlays(step'.calls, h) :
                                     ~step'.calls[n].ok})
          IN  IF watch THEN IntMin(MaxCount, before + now) ELSE 0]

\* a step of the slider alone: the preview's state stays, no media call is made
PreviewIdle ==
    /\ step' = NoStep
    /\ host' = <<>>
    /\ answers' = NoAnswers
    /\ UNCHANGED <<preview_vars, index_vars, autoplay_plays, ready_events, probe,
                   undisturbed, rejections, watch>>

(***************************************************************************)
(* Initial state: the component constructed, its reactive statements run   *)
(* once with no element bound yet (so every width measures 0).             *)
(***************************************************************************)
InitialPosition == Fin(50000)

\* the position on the backend's scale that Index is given by default
DefaultPosition == 50

\* the slider constructed with the bound position pos
SliderInitAt(pos, dis, img, d) ==
    /\ position = pos
    /\ disabled = dis
    /\ LET s == set_position_flush(img, pos, FALSE)
       IN  /\ image_size = s.image_size
           /\ container_width = s.container_width
           /\ px = s.px
    /\ active = FALSE
    /\ drag_start_x = Undefined
    /\ was_dragged = FALSE
    /\ mounted = FALSE
    /\ dom = d
    /\ pointer = "up"
    /\ last = "init"
    /\ last_x = 0
    /\ clicks = 0
    /\ gesture = NoGesture

SliderInitWith(dis, img, d) == SliderInitAt(InitialPosition, dis, img, d)

SliderInit ==
    \E dis \in BOOLEAN, img \in ImageSizes, d \in DomLayouts : SliderInitWith(dis, img, d)

\* the preview constructed: no value yet, so no player and no element; the
\* reactive block has run once and found no handle
PreviewInitWatching(auto, w) ==
    /\ video1_el = FALSE
    /\ video2_el = FALSE
    /\ media = FreshMedia
    /\ video_is_ready = FALSE
    /\ initial_autoplay_done = FALSE
    /\ autoplay = auto
    /\ step = NoStep
    /\ autoplay_plays = 0
    /\ ready_events = 0
    /\ undisturbed = TRUE
    /\ rejections = [h \in {1, 2} |-> 0]
    /\ answers = NoAnswers
    /\ watch = w

PreviewInitWith(auto) == PreviewInitWatching(auto, FALSE)

\* Index constructed with the value v the backend gave, and the preview under
\* it: Index's reactive block has run once against old_value = [null, null]
IndexInitWith(P, v, inter) ==
    /\ index_position = P
    /\ style = clip_style(position)
    /\ value = v
    /\ view = render(v)
    /\ interactive = inter
    /\ old_value = IF change_due(v, ClearedValue) THEN v ELSE ClearedValue
    /\ host = IF change_due(v, ClearedValue) THEN <<"change">> ELSE <<>>

ValueInitWith(v, inter) == IndexInitWith(DefaultPosition, v, inter)

(***************************************************************************)
(* Slider.svelte: lifecycle and handlers.                                  *)
(***************************************************************************)
\* onMount: the elements are bound, set_position measures them
onMount ==
    /\ ~mounted
    /\ mounted' = TRUE
    /\ LET s == set_position_flush(image_size, position, TRUE)
       IN  /\ image_size' = s.image_size
           /\ container_width' = s.container_width
           /\ px' = s.px
    /\ last' = "onMount"
    /\ PreviewIdle
    /\ clicks' = 0
    /\ UNCHANGED <<position, disabled, active, drag_start_x, was_dragged, dom,
                   pointer, last_x, gesture>>
    /\ StyleFollows

\* <svelte:window on:resize>
window_resize_repositions ==
    /\ mounted
    /\ LET s == set_position_flush(image_size, position, TRUE)
       IN  /\ image_size' = s.image_size
           /\ container_width' = s.container_width
           /\ px' = s.px
           /\ position' = IF px.k = "fin"
                           THEN round(Quot(px.v \div Scale - s.image_size.left,
                                           s.image_size.width), Points)
                           ELSE position
    /\ last' = "resize"
    /\ PreviewIdle
    /\ clicks' = 0
    /\ UNCHANGED <<disabled, active, drag_start_x, was_dragged, mounted,
                   dom, pointer, last_x, gesture>>
    /\ StyleFollows

window_resize ==
    /\ mounted
    /\ LET s == set_position_flush(image_size, position, TRUE)
       IN  /\ image_size' = s.image_size
           /\ container_width' = s.container_width
           /\ px' = s.px
    /\ last' = "resize"
    /\ PreviewIdle
    /\ clicks' = 0
    /\ UNCHANGED <<position, disabled, active, drag_start_x, was_dragged, mounted,
                   dom, pointer, last_x, gesture>>
    /\ StyleFollows

\* d3-drag "start"
drag_start(x) ==
    /\ mounted
    /\ pointer = "up"
    /\ pointer' = "down"
    /\ IF disabled
       THEN UNCHANGED <<position, px, active, drag_start_x, was_dragged>>
       ELSE LET u == update_position(x)
            IN  /\ active' = TRUE
                /\ position' = u.position
                /\ px' = px_after_flush(u)
                /\ drag_start_x' = Fin(x)
                /\ was_dragged' = FALSE
    /\ last' = "drag_start"
    /\ PreviewIdle
    /\ last_x' = IF disabled THEN last_x ELSE x
    /\ clicks' = 0
    /\ gesture' = IF disabled THEN NoGesture
                   ELSE [down_x |-> x, maxd |-> 0, enabled |-> TRUE]
    /\ UNCHANGED <<disabled, image_size, container_width, mounted, dom>>
    /\ StyleFollows

\* d3-drag "drag"
drag_move_tracking(x) ==
    /\ mounted
    /\ pointer = "down"
    /\ IF disabled
       THEN UNCHANGED <<position, px, was_dragged>>
       ELSE LET u == update_position(x)
            IN  /\ position' = u.position
                /\ px' = px_after_flush(u)
                /\ was_dragged' = exceeds_threshold(x, drag_start_x)
    /\ last' = "drag_move"
    /\ PreviewIdle
    /\ last_x' = IF disabled THEN last_x ELSE x
    /\ clicks' = 0
    /\ gesture' = IF gesture.enabled /\ ~disabled
                   THEN [gesture EXCEPT
                           !.maxd = IntMin(DistCap, IntMax(@, Abs(x - gesture.down_x)))]
                   ELSE NoGesture
    /\ UNCHANGED <<disabled, image_size, active, container_width, drag_start_x,
                   mounted, dom, pointer>>
    /\ StyleFollows

drag_move(x) ==
    /\ mounted
    /\ pointer = "down"
    /\ IF disabled
       THEN UNCHANGED <<position, px, was_dragged>>
       ELSE LET u == update_position(x)
            IN  /\ position' = u.position
                /\ px' = px_after_flush(u)
                /\ was_dragged' = (exceeds_threshold(x, drag_start_x) \/ was_dragged)
    /\ last' = "drag_move"
    /\ PreviewIdle
    /\ last_x' = IF disabled THEN last_x ELSE x
    /\ clicks' = 0
    /\ gesture' = IF gesture.enabled /\ ~disabled
                   THEN [gesture EXCEPT
                           !.maxd = IntMin(DistCap, IntMax(@, Abs(x - gesture.down_x)))]
                   ELSE NoGesture
    /\ UNCHANGED <<disabled, image_size, active, container_width, drag_start_x,
                   mounted, dom, pointer>>
    /\ StyleFollows

\* d3-drag "end"
drag_end_unguarded ==
    /\ mounted
    /\ pointer = "down"
    /\ pointer' = "up"
    /\ active' = FALSE
    /\ clicks' = click_unless_dragged(was_dragged)
    /\ last' = "drag_end"
    /\ PreviewIdle
    /\ gesture' = IF gesture.enabled /\ ~disabled THEN gesture ELSE NoGesture
    /\ UNCHANGED <<position, disabled, image_size, px, container_width, drag_start_x,
                   was_dragged, mounted, dom, last_x>>
    /\ StyleFollows

drag_end ==
    /\ mounted
    /\ pointer = "down"
    /\ pointer' = "up"
    /\ IF disabled
       THEN /\ clicks' = 0
            /\ UNCHANGED active
       ELSE /\ active' = FALSE
            /\ clicks' = click_unless_dragged(was_dragged)
    /\ last' = "drag_end"
    /\ PreviewIdle
    /\ gesture' = IF gesture.enabled /\ ~disabled THEN gesture ELSE NoGesture
    /\ UNCHANGED <<position, disabled, image_size, px, container_width, drag_start_x,
                   was_dragged, mounted, dom, last_x>>
    /\ StyleFollows

(***************************************************************************)
(* The slider's surroundings.                                              *)
(***************************************************************************)
\* the parent changes the `disabled` prop
set_disabled(b) ==
    /\ b # disabled
    /\ disabled' = b
    /\ last' = "set_disabled"
    /\ PreviewIdle
    /\ clicks' = 0
    /\ gesture' = IF b THEN NoGesture ELSE gesture
    /\ UNCHANGED <<position, image_size, px, active, container_width, drag_start_x,
                   was_dragged, mounted, dom, pointer, last_x>>
    /\ StyleFollows

\* the browser lays the boxes out anew; no handler runs until a resize event
layout(d) ==
    /\ d # dom
    /\ dom' = d
    /\ last' = "layout"
    /\ PreviewIdle
    /\ clicks' = 0
    /\ UNCHANGED <<position, disabled, image_size, px, active, container_width,
                   drag_start_x, was_dragged, mounted, pointer, last_x, gesture>>
    /\ StyleFollows

SliderNext ==
    \/ onMount
    \/ window_resize
    \/ \E x \in PointerXs : drag_start(x)
    \/ \E x \in PointerXs : drag_move(x)
    \/ drag_end
    \/ \E b \in BOOLEAN : set_disabled(b)
    \/ \E d \in DomLayouts : layout(d)

SliderSpecInit ==
    /\ SliderInit
    /\ PreviewInitWith(FALSE)
    /\ ValueInitWith(<<"a", "b">>, FALSE)
    /\ probe = NoProbe

SliderSpec == SliderSpecInit /\ [][SliderNext]_vars

(***************************************************************************)
(* VideoSliderPreview.svelte: handlers, and Player.svelte's play_pause.    *)
(***************************************************************************)
\* a step of the preview alone
SliderIdle ==
    /\ clicks' = 0
    /\ UNCHANGED <<slider_vars, style, last_x, gesture, probe, watch>>

\* a step that leaves the value alone and dispatches nothing to Gradio
ValueIdle ==
    /\ host' = <<>>
    /\ UNCHANGED <<value, view, interactive, old_value, index_position>>

\* the state after the reactive block r has run
AfterBlock(r) ==
    /\ media' = r.media
    /\ initial_autoplay_done' = r.done
    /\ step' = r.step
    /\ autoplay_plays' = IF r.autoplayed THEN Bump(autoplay_plays) ELSE autoplay_plays

\* A Player is created and `bind:video_el` hands its new <video> element to the
\* preview; the assignment to video<i>_el runs the reactive block.
bind_video_slave_unobserved(i, oc) ==
    /\ view = "players"
    /\ IF i = 1 THEN ~video1_el \/ media[1].stale ELSE ~video2_el \/ media[2].stale
    /\ video1_el' = (video1_el \/ i = 1)
    /\ video2_el' = (video2_el \/ i = 2)
    /\ IF i = 1
       THEN AfterBlock(reactive_block(video1_el', video2_el', video_is_ready, autoplay,
                                      initial_autoplay_done,
                                      [media EXCEPT ![i] = FreshElement], oc[1], oc[2]))
       ELSE /\ media' = [media EXCEPT ![i] = FreshElement]
            /\ step' = NoStep
            /\ UNCHANGED <<initial_autoplay_done, autoplay_plays>>
    /\ undisturbed' = /\ undisturbed
                      /\ ~(IF i = 1 THEN video1_el ELSE video2_el)
                      /\ ~Rejected(step'.calls)
    /\ last' = "bind_video"
    /\ SliderIdle
    /\ ValueIdle
    /\ UNCHANGED <<video_is_ready, autoplay, ready_events>>
    /\ answers' = NoAnswers
    /\ RejectionsFollow({i})

bind_video(i, oc) ==
    /\ view = "players"
    /\ IF i = 1 THEN ~video1_el \/ media[1].stale ELSE ~video2_el \/ media[2].stale
    /\ video1_el' = (video1_el \/ i = 1)
    /\ video2_el' = (video2_el \/ i = 2)
    /\ AfterBlock(reactive_block(video1_el', video2_el', video_is_ready, autoplay,
                                 initial_autoplay_done,
                                 [media EXCEPT ![i] = FreshElement], oc[1], oc[2]))
    /\ undisturbed' = /\ undisturbed
                      /\ ~(IF i = 1 THEN video1_el ELSE video2_el)
                      /\ ~Rejected(step'.calls)
    /\ last' = "bind_video"
    /\ SliderIdle
    /\ ValueIdle
    /\ UNCHANGED <<video_is_ready, autoplay, ready_events>>
    /\ answers' = NoAnswers
    /\ RejectionsFollow({i})

\* The master element has loaded its first frame: on:loadeddata of the first
\* Player; the reactive block runs if the assignment changed video_is_ready
handle_video_ready(oc) ==
    /\ view = "players"
    /\ video1_el /\ ~media[1].stale
    /\ video_is_ready' = TRUE
    /\ LET loaded == [media EXCEPT ![1].loaded = TRUE]
       IN  IF ~video_is_ready
           THEN AfterBlock(reactive_block(video1_el, video2_el, TRUE, autoplay,
                                          initial_autoplay_done, loaded, oc[1], oc[2]))
           ELSE /\ media' = loaded
                /\ step' = NoStep
                /\ UNCHANGED <<initial_autoplay_done, autoplay_plays>>
    /\ ready_events' = Bump(ready_events)
    /\ undisturbed' = (undisturbed /\ ~Rejected(step'.calls))
    /\ last' = "handle_video_ready"
    /\ SliderIdle
    /\ ValueIdle
    /\ UNCHANGED <<video1_el, video2_el, autoplay>>
    /\ answers' = NoAnswers
    /\ RejectionsFollow({})

\* the parent changes the `autoplay` prop, which runs the reactive block
set_autoplay(b, oc) ==
    /\ b # autoplay
    /\ autoplay' = b
    /\ AfterBlock(reactive_block(video1_el, video2_el, video_is_ready, b,
                                 initial_autoplay_done, media, oc[1], oc[2]))
    /\ undisturbed' = FALSE
    /\ last' = "set_autoplay"
    /\ SliderIdle
    /\ ValueIdle
    /\ UNCHANGED <<video1_el, video2_el, video_is_ready, ready_events>>
    /\ answers' = NoAnswers
    /\ RejectionsFollow({})

\* the command toggle_playback gives both elements, from the two paused flags
toggle_op_from_slave(p1, p2) == IF p2 THEN "play" ELSE "pause"

toggle_op(p1, p2) == IF p1 THEN "play" ELSE "pause"

\* `const is_paused = video1_el.paused`, of the element m that answers ended
\* and have_data (readyState > HAVE_CURRENT_DATA)
is_not_playing(m, ended, have_data) ==
    ~(m.currentTime > 0 /\ ~m.paused /\ ~ended /\ have_data)

is_paused(m, ended, have_data) == m.paused

\* on:click and on:keydown (Enter, space) of the main wrapper.  The handler
\* reads video1_el.paused and nothing else of the element: what the element
\* would answer for `ended` and for readyState > HAVE_CURRENT_DATA at that
\* moment is recorded, and read by no one.
toggle_playback(ended, have_data, oc) ==
    /\ view = "players"
    /\ IF handles_missing(video1_el, video2_el)
       THEN /\ step' = NoStep
            /\ UNCHANGED media
       ELSE LET op == toggle_op(is_paused(media[1], ended, have_data), media[2].paused)
            IN  IF op = "play"
                THEN /\ media' = play(play(media, 1, oc[1]), 2, oc[2])
                     /\ step' = [NoStep EXCEPT !.calls =
                                   <<Call(1, "play", oc[1], TRUE, "toggle"),
                                     Call(2, "play", oc[2], TRUE, "toggle")>>]
                ELSE /\ media' = pause(pause(media, 1), 2)
                     /\ step' = [NoStep EXCEPT !.calls =
                                   <<Call(1, "pause", TRUE, TRUE, "toggle"),
                                     Call(2, "pause", TRUE, TRUE, "toggle")>>]
    /\ undisturbed' = FALSE
    /\ last' = "toggle_playback"
    /\ SliderIdle
    /\ ValueIdle
    /\ UNCHANGED <<video1_el, video2_el, video_is_ready, initial_autoplay_done,
                   autoplay, autoplay_plays, ready_events>>
    /\ answers' = IF watch /\ ~handles_missing(video1_el, video2_el)
                   THEN [ended |-> ended, have_data |-> have_data]
                   ELSE NoAnswers
    /\ RejectionsFollow({})

\* Player.svelte play_pause of Player i (a click on its video or on its
\* play/pause icon).  The browser's answers it reads are inputs: whether the
\* video is the fullscreen element, video.ended, and whether
\* video.readyState > HAVE_CURRENT_DATA.  `await video.play()` stands in an
\* async function with no catch: a rejection is left unhandled.
play_pause(i, is_fullscreen, ended, have_data, ok) ==
    /\ view = "players"
    /\ IF i = 1 THEN video1_el ELSE video2_el
    /\ ~media[i].stale
    /\ LET isPlaying == /\ media[i].currentTime > 0
                        /\ ~media[i].paused
                        /\ ~ended
                        /\ have_data
       IN  IF is_fullscreen
           THEN /\ step' = NoStep
                /\ UNCHANGED media
           ELSE IF ~isPlaying
           THEN /\ media' = play(media, i, ok)
                /\ step' = [NoStep EXCEPT !.calls =
                              <<Call(i, "play", ok, FALSE, "play_pause")>>]
           ELSE /\ media' = pause(media, i)
                /\ step' = [NoStep EXCEPT !.calls =
                              <<Call(i, "pause", TRUE, TRUE, "play_pause")>>]
    /\ undisturbed' = FALSE
    /\ last' = "play_pause"
    /\ SliderIdle
    /\ ValueIdle
    /\ UNCHANGED <<video1_el, video2_el, video_is_ready, initial_autoplay_done,
                   autoplay, autoplay_plays, ready_events>>
    /\ answers' = NoAnswers
    /\ RejectionsFollow({})

\* the browser moves the currentTime of an element in the document: playback
\* goes on, or a seek
media_time(i, t) ==
    /\ IF i = 1 THEN video1_el ELSE video2_el
    /\ ~media[i].stale
    /\ t # media[i].currentTime
    /\ media' = [media EXCEPT ![i].currentTime = t]
    /\ step' = NoStep
    /\ last' = "media_time"
    /\ SliderIdle
    /\ ValueIdle
    /\ UNCHANGED undisturbed
    /\ UNCHANGED <<video1_el, video2_el, video_is_ready, initial_autoplay_done,
                   autoplay, autoplay_plays, ready_events>>
    /\ answers' = NoAnswers
    /\ RejectionsFollow({})

\* Gradio gives Index a value (a new object each time); bind:value hands it to
\* the preview, which renders the placeholder or the players; Index's reactive
\* block compares the serializations.  Players that are no longer rendered are
\* destroyed, and video1_el and video2_el keep naming their elements until the
\* Players rendered next hand over theirs.
set_value(v) ==
    /\ value' = v
    /\ view' = render(v)
    /\ IF change_due(v, old_value)
       THEN /\ old_value' = v
            /\ host' = <<"change">>
       ELSE /\ host' = <<>>
            /\ UNCHANGED old_value
    /\ media' = destroy_players(media, video1_el, video2_el, view, view')
    /\ step' = NoStep
    /\ undisturbed' = FALSE
    /\ last' = "set_value"
    /\ SliderIdle
    /\ UNCHANGED <<video1_el, video2_el, video_is_ready, initial_autoplay_done,
                   autoplay, interactive, index_position, autoplay_plays, ready_events>>
    /\ answers' = NoAnswers
    /\ RejectionsFollow({})

\* on:click of the clear button, which is rendered if `interactive`, next to the
\* main wrapper and not inside it.  dispatch("clear") reaches Index's on:clear
\* at once; the assignment to value reaches Index's reactive block in the flush.
clear_click_propagating ==
    /\ view = "players"
    /\ interactive
    /\ value' = ClearedValue
    /\ view' = render(ClearedValue)
    /\ IF change_due(ClearedValue, old_value)
       THEN /\ old_value' = ClearedValue
            /\ host' = <<"clear", "change">>
       ELSE /\ host' = <<"clear">>
            /\ UNCHANGED old_value
    /\ IF handles_missing(video1_el, video2_el)
       THEN /\ step' = NoStep
            /\ media' = destroy_players(media, video1_el, video2_el, view, view')
       ELSE /\ media' = destroy_players(pause(pause(media, 1), 2), video1_el,
                                        video2_el, view, view')
            /\ step' = [NoStep EXCEPT !.calls =
                          <<Call(1, "pause", TRUE, TRUE, "toggle"),
                            Call(2, "pause", TRUE, TRUE, "toggle")>>]
    /\ undisturbed' = FALSE
    /\ last' = "clear_click"
    /\ SliderIdle
    /\ UNCHANGED <<video1_el, video2_el, video_is_ready, initial_autoplay_done,
                   autoplay, interactive, index_position, autoplay_plays, ready_events>>
    /\ answers' = NoAnswers
    /\ RejectionsFollow({})

clear_click ==
    /\ view = "players"
    /\ interactive
    /\ value' = ClearedValue
    /\ view' = render(ClearedValue)
    /\ IF change_due(ClearedValue, old_value)
       THEN /\ old_value' = ClearedValue
            /\ host' = <<"clear", "change">>
       ELSE /\ host' = <<"clear">>
            /\ UNCHANGED old_value
    /\ media' = destroy_players(media, video1_el, video2_el, view, view')
    /\ step' = NoStep
    /\ undisturbed' = FALSE
    /\ last' = "clear_click"
    /\ SliderIdle
    /\ UNCHANGED <<video1_el, video2_el, video_is_ready, initial_autoplay_done,
                   autoplay, interactive, index_position, autoplay_plays, ready_events>>
    /\ answers' = NoAnswers
    /\ RejectionsFollow({})

PreviewNext ==
    \/ \E v \in Values : set_value(v)
    \/ clear_click
    \/ \E i \in {1, 2}, oc \in Outcomes : bind_video(i, oc)
    \/ \E oc \in Outcomes : handle_video_ready(oc)
    \/ \E b \in BOOLEAN, oc \in Outcomes : set_autoplay(b, oc)
    \/ \E oc \in Outcomes :
          toggle_playback(NoAnswers.ended, NoAnswers.have_data, oc)
    \/ \E i \in {1, 2}, f, e, h, ok \in BOOLEAN : play_pause(i, f, e, h, ok)
    \/ \E i \in {1, 2}, t \in Times : media_time(i, t)

\* the preview with the slider it contains left alone: default props, a small box
PreviewSpecInit ==
    /\ SliderInitWith(FALSE, [left |-> 0, width |-> 0],
                      [parent |-> SmallWidth, el |-> SmallWidth - 3])
    /\ \E auto \in BOOLEAN : PreviewInitWith(auto)
    /\ \E v \in Values, inter \in BOOLEAN : ValueInitWith(v, inter)
    /\ probe = NoProbe

PreviewSpec == PreviewSpecInit /\ [][PreviewNext]_vars

\* The browser goes on playing: the currentTime of an element that is not
\* paused advances.  Nothing else is bound to happen: every handler runs to its
\* end, reactive statements included, within its step, and leaves no work behind.
Playback == \E i \in {1, 2}, t \in Times : media_time(i, t) /\ ~media[i].paused

FairPreviewSpec == PreviewSpecInit /\ [][PreviewNext]_vars /\ WF_vars(Playback)

(***************************************************************************)
(* The preview as Index renders it (interactive is false, so there is no   *)
(* clear button), with the rejected play() calls and the master's answers  *)
(* on record: the value is a pair of videos or the cleared pair, and the   *)
(* elements are at the start or at 9.90 s.                                 *)
(***************************************************************************)
TransportValues == {ClearedValue, <<"a", "b">>}
TransportTimes == {0, 990}

TransportNext ==
    \/ \E v \in TransportValues : set_value(v)
    \/ \E i \in {1, 2}, oc \in Outcomes : bind_video(i, oc)
    \/ \E oc \in Outcomes : handle_video_ready(oc)
    \/ \E b \in BOOLEAN, oc \in Outcomes : set_autoplay(b, oc)
    \/ \E e, h \in BOOLEAN, oc \in Outcomes : toggle_playback(e, h, oc)
    \/ \E i \in {1, 2}, f, e, h, ok \in BOOLEAN : play_pause(i, f, e, h, ok)
    \/ \E i \in {1, 2}, t \in TransportTimes : media_time(i, t)

TransportSpecInit ==
    /\ SliderInitWith(FALSE, [left |-> 0, width |-> 0],
                      [parent |-> SmallWidth, el |-> SmallWidth - 3])
    /\ \E auto \in BOOLEAN : PreviewInitWatching(auto, TRUE)
    /\ ValueInitWith(<<"a", "b">>, FALSE)
    /\ probe = NoProbe

TransportSpec == TransportSpecInit /\ [][TransportNext]_vars

(***************************************************************************)
(* The slider inside the preview: the handle is a descendant of the main   *)
(* wrapper, whose on:click is toggle_playback.  A press and release on the *)
(* handle is a d3-drag gesture, and the browser's click that follows it is *)
(* dispatched on the handle, whose listener stops it there.                *)
(***************************************************************************)
\* the browser's click on the handle after a release there: on:click of the
\* handle calls event.stopPropagation(), so the main wrapper's on:click is not run
handle_click_bubbling(oc) ==
    /\ mounted
    /\ last = "drag_end"
    /\ view = "players"
    /\ IF handles_missing(video1_el, video2_el)
       THEN /\ step' = NoStep
            /\ UNCHANGED media
       ELSE IF toggle_op(media[1].paused, media[2].paused) = "play"
       THEN /\ media' = play(play(media, 1, oc[1]), 2, oc[2])
            /\ step' = [NoStep EXCEPT !.calls =
                          <<Call(1, "play", oc[1], TRUE, "toggle"),
                            Call(2, "play", oc[2], TRUE, "toggle")>>]
       ELSE /\ media' = pause(pause(media, 1), 2)
            /\ step' = [NoStep EXCEPT !.calls =
                          <<Call(1, "pause", TRUE, TRUE, "toggle"),
                            Call(2, "pause", TRUE, TRUE, "toggle")>>]
    /\ last' = "handle_click"
    /\ SliderIdle
    /\ ValueIdle
    /\ answers' = NoAnswers
    /\ UNCHANGED <<video1_el, video2_el, video_is_ready, initial_autoplay_done,
                   autoplay, autoplay_plays, ready_events, undisturbed, rejections>>

handle_click(oc) ==
    /\ mounted
    /\ last = "drag_end"
    /\ view = "players"
    /\ step' = NoStep
    /\ last' = "handle_click"
    /\ SliderIdle
    /\ ValueIdle
    /\ answers' = NoAnswers
    /\ UNCHANGED <<video1_el, video2_el, media, video_is_ready, initial_autoplay_done,
                   autoplay, autoplay_plays, ready_events, undisturbed, rejections>>

\* event.x of the gestures on the handle
PageXs == {4, SmallWidth}

PageNext ==
    \/ onMount
    \/ \E x \in PageXs : drag_start(x)
    \/ \E x \in PageXs : drag_move(x)
    \/ drag_end
    \/ \E oc \in Outcomes : handle_click(oc)
    \/ \E oc \in Outcomes :
          toggle_playback(NoAnswers.ended, NoAnswers.have_data, oc)
    \/ \E i \in {1, 2}, oc \in Outcomes : bind_video(i, oc)
    \/ \E oc \in Outcomes : handle_video_ready(oc)
    \/ \E i \in {1, 2}, t \in TransportTimes : media_time(i, t)

\* the preview with autoplay on, a pair of videos and its slider in a small box
PageSpecInit ==
    /\ SliderInitWith(FALSE, [left |-> 0, width |-> 0],
                      [parent |-> SmallWidth, el |-> SmallWidth - 3])
    /\ PreviewInitWith(TRUE)
    /\ ValueInitWith(<<"a", "b">>, FALSE)
    /\ probe = NoProbe

PageSpec == PageSpecInit /\ [][PageNext]_vars

(***************************************************************************)
(* Index, the preview and the slider: the position from the backend, the   *)
(* slider's drags and the clip of the second player.                       *)
(***************************************************************************)
\* the positions the backend gives: below 0, the ends, inside, above 100
ClipPositions == {0 - 20, 0, 25, DefaultPosition, 100, 130}
\* event.x of the drags
ClipXs == {0 - Margin, 4, SmallWidth}

\* Gradio gives Index a position, the one it has or another.
\* normalised_slider_position is recomputed; if it is a different number the
\* preview's position is set to it, and through bind:position the slider's,
\* whose reactive statement moves px.
set_index_position_always(P) ==
    /\ index_position' = P
    /\ position' = normalised_slider_position(P)
    /\ px' = IF position' # position THEN update_position_from_pc(position') ELSE px
    /\ style' = clip_style(position')
    /\ step' = NoStep
    /\ host' = <<>>
    /\ clicks' = 0
    /\ last' = "set_index_position"
    /\ UNCHANGED <<disabled, image_size, active, container_width, drag_start_x,
                   was_dragged, mounted, dom, pointer, last_x, gesture>>
    /\ answers' = NoAnswers
    /\ UNCHANGED <<preview_vars, old_value, autoplay_plays, ready_events, undisturbed,
                   rejections, watch, probe>>

set_index_position(P) ==
    /\ index_position' = P
    /\ position' = IF normalised_slider_position(P) # normalised_slider_position(index_position)
                   THEN normalised_slider_position(P)
                   ELSE position
    /\ px' = IF position' # position THEN update_position_from_pc(position') ELSE px
    /\ style' = clip_style(position')
    /\ step' = NoStep
    /\ host' = <<>>
    /\ clicks' = 0
    /\ last' = "set_index_position"
    /\ UNCHANGED <<disabled, image_size, active, container_width, drag_start_x,
                   was_dragged, mounted, dom, pointer, last_x, gesture>>
    /\ answers' = NoAnswers
    /\ UNCHANGED <<preview_vars, old_value, autoplay_plays, ready_events, undisturbed,
                   rejections, watch, probe>>

ClipNext ==
    \/ \E P \in ClipPositions : set_index_position(P)
    \/ onMount
    \/ \E x \in ClipXs : drag_start(x)
    \/ \E x \in ClipXs : drag_move(x)
    \/ drag_end

ClipSpecInit ==
    /\ \E P \in ClipPositions :
          /\ SliderInitAt(normalised_slider_position(P), FALSE, [left |-> 0, width |-> 0],
                          [parent |-> SmallWidth, el |-> SmallWidth - 3])
          /\ IndexInitWith(P, <<"a", "b">>, FALSE)
    /\ PreviewInitWith(FALSE)
    /\ probe = NoProbe

ClipSpec == ClipSpecInit /\ [][ClipNext]_vars

(***************************************************************************)
(* The conversions alone: update_position_from_pc takes a normalized       *)
(* position to a pixel offset, update_position takes a pixel offset back.  *)
(* The position is the exact fraction pn / pd, the pixel offset the exact  *)
(* fraction xn / pd, so that positions between two 5-decimal numbers are   *)
(* among the inputs.                                                       *)
(***************************************************************************)
\* the denominators of the positions probed
ProbeDens == {3, 7, 8, 64}
\* the largest numerator probed over the small denominators
MaxNum == 9
\* the geometries probed: the image's box and the wrapper's width
ProbeGeoms ==
    { [img |-> [left |-> 0, width |-> 7], cw |-> SmallWidth],
      [img |-> [left |-> 100, width |-> 400], cw |-> 600],
      [img |-> [left |-> 100, width |-> 400], cw |-> 400],
      [img |-> [left |-> 0, width |-> 0], cw |-> SmallWidth] }
\* pn for the denominator pd: every numerator of a small denominator, 0 and
\* pd included; for 64 a tie of the rounding (1 / 64 = 0.015625) and two more
ProbeNums(pd) ==
    IF pd <= MaxNum THEN 0 .. pd ELSE {1, 3, 21}

\* update_position_from_pc(pc) for pc = pn / pd: the numerator of px over pd
px_of_pc_without_left(pn, pd, img, cw) ==
    clamp(Fin(img.width * pn), Fin(0), Fin(cw * pd)).v

px_of_pc(pn, pd, img, cw) ==
    clamp(Fin(img.width * pn + img.left * pd), Fin(0), Fin(cw * pd)).v

\* the position update_position(x) writes for x = xn / pd
pc_of_px(xn, pd, img) ==
    round(Quot(xn - img.left * pd, img.width * pd), Points)

ProbeInit ==
    \E pd \in ProbeDens : \E pn \in ProbeNums(pd) : \E g \in ProbeGeoms :
       probe = [stage |-> "pc", pn |-> pn, pd |-> pd, img |-> g.img, cw |-> g.cw,
                xn |-> 0, back |-> Fin(0)]

\* update_position_from_pc(position)
probe_to_px ==
    /\ probe.stage = "pc"
    /\ probe' = [probe EXCEPT !.stage = "px",
                              !.xn = px_of_pc(probe.pn, probe.pd, probe.img, probe.cw)]
    /\ UNCHANGED <<slider_vars, preview_vars, style, index_vars, obs_vars>>

\* update_position(px)
probe_to_pc ==
    /\ probe.stage = "px"
    /\ probe' = [probe EXCEPT !.stage = "back",
                              !.back = pc_of_px(probe.xn, probe.pd, probe.img)]
    /\ UNCHANGED <<slider_vars, preview_vars, style, index_vars, obs_vars>>

RoundTripNext == probe_to_px \/ probe_to_pc

RoundTripSpecInit ==
    /\ SliderInitWith(FALSE, [left |-> 0, width |-> 0],
                      [parent |-> SmallWidth, el |-> SmallWidth - 3])
    /\ PreviewInitWith(FALSE)
    /\ ValueInitWith(<<"a", "b">>, FALSE)
    /\ ProbeInit

RoundTripSpec == RoundTripSpecInit /\ [][RoundTripNext]_vars

(***************************************************************************)
(* The drag controller: claims.                                            *)
(***************************************************************************)
PointerOps == {"drag_start", "drag_move", "drag_end"}
\* the last step was a pointer-down or pointer-move that the slider took
Applied == last \in {"drag_start", "drag_move"} /\ ~disabled

\* C1: after every pointer-down and pointer-move the slider takes, at any x,
\* the normalized position it wrote is a finite number within [0, 1].
C1_PositionInUnitInterval ==
    Applied => (position.k = "fin" /\ 0 <= position.v /\ position.v <= Scale)

\* C2: a pointer-up the slider takes dispatches exactly one click if was_dragged
\* is false and none if it is true; a gesture that never left its down point
\* ends in one click, one that went more than 3px away (10px, say) in none.
C2_ClickIffNotDragged ==
    /\ (last = "drag_end" /\ ~disabled) => clicks = (IF was_dragged THEN 0 ELSE 1)
    /\ (last = "drag_end" /\ gesture.enabled) =>
          /\ gesture.maxd = 0 => clicks = 1
          /\ gesture.maxd > 3 => clicks = 0

C2_Witness ==
    /\ last = "drag_end"
    /\ gesture.enabled
    /\ gesture.maxd = 0
    /\ gesture.down_x = last_x
    /\ clicks = 1

\* C3: while disabled, a pointer-down, pointer-move or pointer-up changes none
\* of position, px, active, drag_start_x and was_dragged and dispatches no click.
C3_DisabledIsNoOp ==
    [][(last' \in PointerOps /\ disabled) =>
          /\ UNCHANGED <<position, px, active, drag_start_x, was_dragged>>
          /\ clicks' = 0]_vars

\* a press and release while disabled, which would have been a click
C3_Witness ==
    /\ disabled
    /\ last = "drag_end"
    /\ ~was_dragged
    /\ clicks = 0

\* position is (x - left) / width rounded to 5 decimals, a tie going up
RoundedQuotient(pos, x, left, width) ==
    /\ pos.k = "fin"
    /\ 2 * (pos.v * width - (x - left) * 100000) <= width
    /\ 2 * (pos.v * width - (x - left) * 100000) > 0 - width

C4_AppliedPosition ==
    /\ (Applied /\ image_size.width > 0) =>
          RoundedQuotient(position, last_x, image_size.left, image_size.width)
    /\ (Applied /\ image_size = [left |-> 100, width |-> 400]) =>
          /\ last_x = 300 => position = Fin(50000)
          /\ last_x = 340 => position = Fin(60000)

\* C4: while enabled and image_size.width > 0, the position after a pointer-down
\* or pointer-move at x is (x - left) / width rounded to 5 decimals, and a
\* pointer-up leaves the position as it was; with left 100 and width 400, a press
\* at 300 gives 0.5 and a move to 340 gives 0.6.
C4_PositionFollowsPointer ==
    /\ []C4_AppliedPosition
    /\ [][last' = "drag_end" => position' = position]_vars

\* the worked example, after the pointer-up
C4_Witness ==
    /\ last = "drag_end"
    /\ gesture.enabled
    /\ image_size = [left |-> 100, width |-> 400]
    /\ container_width = 600
    /\ drag_start_x = Fin(300)
    /\ last_x = 340
    /\ position = Fin(60000)
    /\ clicks = 0

\* C5: a pointer-move the slider takes sets was_dragged if it is more than 3px
\* from drag_start_x, to either side, and leaves was_dragged as it was if it is
\* 3px or less away.
C5_ThresholdIsStrict ==
    [][(last' = "drag_move" /\ ~disabled /\ drag_start_x.k = "fin") =>
          LET d == Abs(last_x' - drag_start_x.v)
          IN  /\ d >= 4 => was_dragged'
              /\ d <= 3 => was_dragged' = was_dragged]_vars

\* exactly 3px to the left of the down point, and not a drag
C5_Witness ==
    /\ last = "drag_move"
    /\ gesture.enabled
    /\ drag_start_x = Fin(7)
    /\ last_x = 4
    /\ ~was_dragged

\* C12: a resize (set_position run from the window's resize event) leaves the
\* normalized position as it was; of the slider's state it may change only px,
\* container_width and, when image_size.width was 0, image_size.width.
C12_ResizeKeepsPosition ==
    [][last' = "resize" =>
          /\ position' = position
          /\ UNCHANGED <<disabled, active, drag_start_x, was_dragged>>
          /\ image_size'.left = image_size.left
          /\ image_size.width # 0 => image_size'.width = image_size.width]_vars

\* a position dragged to 4/7 in the small box, kept through a resize that
\* measured the wide box
C12_Witness ==
    /\ last = "resize"
    /\ position = Fin(57143)
    /\ image_size.width = SmallWidth - 3
    /\ container_width = 600
    /\ px = Fin(4 * Scale + 1)

\* C13: in every state 0 <= px <= container_width, and px is 0 whenever
\* container_width is 0.
C13_PxWithinContainer ==
    /\ px.k = "fin"
    /\ 0 <= px.v
    /\ px.v <= container_width * Scale
    /\ container_width = 0 => px.v = 0

MovedStep ==
    /\ (was_dragged /\ ~was_dragged') => (last' = "drag_start" /\ ~disabled)
    /\ (last' = "drag_move" /\ gesture'.enabled /\ gesture'.maxd > DragThreshold) =>
          was_dragged'
    /\ (last' = "drag_end" /\ was_dragged) => clicks' = 0

\* C26: within a gesture, once a pointer-move was more than 3px from the down
\* point was_dragged is true and stays true, also when the pointer comes back
\* to the down point, so that the pointer-up dispatches no click; only a
\* pointer-down the slider takes sets it to false again.
C26_MovedIsSticky == [][MovedStep]_vars

\* the pointer went more than 3px away, came back to the down point and was
\* released there: no click
C26_Witness ==
    /\ last = "drag_end"
    /\ gesture.enabled
    /\ gesture.maxd > DragThreshold
    /\ last_x = gesture.down_x
    /\ was_dragged
    /\ clicks = 0

\* C27: whenever the pointer is up the slider is idle (active is false): every
\* pointer-up that ends a gesture whose pointer-down the slider took resets
\* active, whether the gesture moved or not, and also when the slider was
\* disabled during the drag.
C27_ReleasedIsIdle == pointer = "up" => ~active

\* a pointer-move or pointer-up of a gesture whose pointer-down the slider did
\* not take (active is still false while the pointer is down)
UnacceptedStep ==
    /\ (last' = "drag_move" /\ ~active) => (position' = position /\ px' = px)
    /\ (last' = "drag_end" /\ ~active) => clicks' = 0

\* C29: a pointer-move changes the position, and a pointer-up dispatches a
\* click, only in a gesture whose pointer-down the slider took: when the slider
\* was disabled at the pointer-down and is enabled again before the move or
\* the release, the move changes nothing and the release dispatches no click.
C29_OnlyAcceptedGestures == [][UnacceptedStep]_vars

\* C25: a pointer-down or pointer-move the slider takes while image_size.width
\* is 0 leaves the position a finite number within [0, 1] and px a finite
\* offset; after the next measurement (mount or resize) px is the finite offset
\* that belongs to the position.
C25_NoGeometryIsTransient ==
    /\ (Applied /\ image_size.width = 0) =>
          /\ position.k = "fin" /\ 0 <= position.v /\ position.v <= Scale
          /\ px.k = "fin"
    /\ last \in {"onMount", "resize"} =>
          /\ px.k = "fin"
          /\ px = update_position_from_pc(position)

\* the pixel of pn / pd, before the clamp, lies within [0, cw]
ProbeInRange ==
    /\ probe.img.width > 0
    /\ 0 < probe.pn /\ probe.pn < probe.pd
    /\ probe.img.width * probe.pn + probe.img.left * probe.pd >= 0
    /\ probe.img.width * probe.pn + probe.img.left * probe.pd <= probe.cw * probe.pd

\* C14: for image_size.width > 0 and p strictly between 0 and 1 whose pixel
\* width * p + left lies within [0, container_width], taking p to the pixel
\* and the pixel back gives a finite position no further than half of 10^-5
\* from p.
C14_RoundTrip ==
    (probe.stage = "back" /\ ProbeInRange) =>
       /\ probe.back.k = "fin"
       /\ 2 * Abs(probe.back.v * probe.pd - probe.pn * Scale) <= probe.pd

\* p = 2/3 goes to the pixel 366.67 (1100 / 3) and comes back as 0.66667
C14_Witness ==
    /\ probe.stage = "back"
    /\ ProbeInRange
    /\ probe.pn = 2 /\ probe.pd = 3
    /\ probe.img = [left |-> 100, width |-> 400]
    /\ probe.xn = 1100
    /\ probe.back = Fin(66667)

(***************************************************************************)
(* The media synchronisation: claims.                                      *)
(***************************************************************************)
\* the calls of the last step made by `by` on element v with operation op
CallsOf(by, v, op) ==
    {n \in 1 .. Len(step.calls) :
        step.calls[n].by = by /\ step.calls[n].v = v /\ step.calls[n].op = op}

\* the media calls of the last step made by the sync controller: toggle_playback,
\* the sync block and the autoplay block (Player's own play_pause is not its)
ControllerCalls ==
    {n \in 1 .. Len(step.calls) : step.calls[n].by \in {"toggle", "sync", "autoplay"}}
\* value has a null source
HasNullSource == value # <<>> /\ (value[1] = Null \/ value[2] = Null)

\* C11 as stated: while a handle is absent, toggle_playback, the sync block and
\* the autoplay block make no play(), pause() or currentTime write on any
\* handle; the placeholder is rendered whenever a source of the pair is null.
C11_NoCallWhileHandleAbsent ==
    /\ (~video1_el \/ ~video2_el) => ControllerCalls = {}
    /\ HasNullSource => view = "empty"

\* C11, amended: while a handle is absent, toggle_playback and the sync block
\* make no call, and no call is made on an absent handle; the autoplay block
\* looks at the master's handle alone and may call play() on the master while
\* the slave's is absent.  The placeholder is rendered whenever value is null
\* or a source of the pair is null.
C11_NoCallOnAbsentHandle ==
    /\ (~video1_el \/ ~video2_el) =>
          \A n \in ControllerCalls :
             /\ step.calls[n].by = "autoplay"
             /\ step.calls[n].v = 1
             /\ step.calls[n].op = "play"
             /\ video1_el
    /\ (value = <<>> \/ HasNullSource) => view = "empty"

\* the master is ready before the slave is bound: autoplay starts the master
C11_Witness ==
    /\ last = "handle_video_ready"
    /\ video1_el
    /\ ~video2_el
    /\ step.calls = <<Call(1, "play", TRUE, TRUE, "autoplay")>>
    /\ ~media[1].paused

C18_ClipFollowsPosition ==
    /\ style.primary = NoClip
    /\ style.secondary = (IF position.k = "fin" THEN Fin(100 * position.v) ELSE position)
    /\ drag_start_x = Undefined =>
          style.secondary = Fin(IntMax(0, IntMin(100, index_position)) * Scale)

\* the backend moves the position from 25 to 130 before any drag: all hidden
C18_Witness ==
    /\ last = "set_index_position"
    /\ mounted
    /\ drag_start_x = Undefined
    /\ index_position = 130
    /\ position = Fin(Scale)
    /\ style.secondary = Fin(100 * Scale)
    /\ px = Fin((SmallWidth - 3) * Scale)

(***************************************************************************)
(* The value and the events dispatched to Gradio: claims.                  *)
(***************************************************************************)
\* how many times event e is in the sequence h
Count(h, e) == Cardinality({n \in 1 .. Len(h) : h[n] = e})
ValueSteps == {"set_value", "clear_click"}

\* what a step does about 'change'
ChangeStep ==
    /\ (last' \in ValueSteps /\ Json(value') # Json(old_value)) =>
          (Count(host', "change") = 1 /\ old_value' = value')
    /\ (last' \in ValueSteps /\ Json(value') = Json(old_value)) =>
          (Count(host', "change") = 0 /\ old_value' = old_value)
    /\ (last' \notin ValueSteps) =>
          (Count(host', "change") = 0 /\ old_value' = old_value)

\* C16: a step that gives value a serialization other than old_value's
\* dispatches exactly one 'change' and leaves old_value equal to value; a step
\* that gives it the same serialization, and any other step, dispatches none
\* and leaves old_value; constructing with [null, null] dispatches none.
C16_ChangeOncePerNewValue ==
    /\ []((last = "init" /\ value = ClearedValue) => host = <<>>)
    /\ [](Count(host, "change") > 0 => old_value = value)
    /\ [][ChangeStep]_vars

\* Gradio gave the pair again, as a new object: no 'change'
C16_Witness ==
    /\ last = "set_value"
    /\ value = <<"a", "b">>
    /\ old_value = <<"a", "b">>
    /\ host = <<>>

\* C17: a click on the clear button sets value to [null, null], dispatches
\* exactly one 'clear', then exactly one 'change' if the value recorded before
\* was not [null, null], and makes no call on either video.
C17_ClearThenChange ==
    [][last' = "clear_click" =>
          /\ value' = ClearedValue
          /\ Count(host', "clear") = 1
          /\ host'[1] = "clear"
          /\ (Json(old_value) # Json(ClearedValue)) => (host' = <<"clear", "change">>)
          /\ (Json(old_value) = Json(ClearedValue)) => (host' = <<"clear">>)
          /\ step'.calls = <<>>
          /\ \A i \in {1, 2} : media'[i].currentTime = media[i].currentTime]_vars

\* cleared 9.90 s into both videos: the players are gone, and the preview made
\* no call on their elements
C17_Witness ==
    /\ last = "clear_click"
    /\ value = ClearedValue
    /\ view = "empty"
    /\ host = <<"clear", "change">>
    /\ video1_el /\ video2_el
    /\ media[1].stale /\ media[2].stale
    /\ media[1].currentTime = 990 /\ media[2].currentTime = 990
    /\ step.calls = <<>>

\* C19: a run of the sync block makes no call on the master and leaves the
\* master's currentTime and paused flag as it found them, whatever the state:
\* also when the slave is ahead, and when the slave plays while the master is
\* paused.
C19_MasterUntouched ==
    /\ \A n \in 1 .. Len(step.calls) : step.calls[n].by = "sync" => step.calls[n].v = 2
    /\ step.sync => media[1] = step.pre[1]

\* the slave was ahead and playing, the master paused: the slave alone changes
C19_Witness ==
    /\ step.sync
    /\ step.pre[1].currentTime = 980 /\ step.pre[1].paused
    /\ step.pre[2].currentTime = 1000 /\ ~step.pre[2].paused
    /\ media[1] = step.pre[1]
    /\ media[2].currentTime = 980 /\ media[2].paused

\* both handles bound, and the slave's paused flag or time differs from the master's
Differs ==
    /\ video1_el
    /\ video2_el
    /\ \/ media[1].paused # media[2].paused
       \/ Abs(media[1].currentTime - media[2].currentTime) > Tolerance

\* C20: whenever the slave differs from the master, a later run of the sync
\* block leaves them equal in paused and no more than 0.1 s apart, or has its
\* play() rejected.
C20_SelfHealing ==
    Differs ~> (~Differs \/ (step.sync /\ Rejected(step.calls)))

\* C6: a run of the sync block with both handles leaves the slave's currentTime
\* at the master's if the two were more than 0.1 s apart, in either direction,
\* and as it was if they were 0.1 s apart or less (10.0 against 9.8 gives 10.0;
\* a drift of 0.05 is left).
C6_TimeCorrection ==
    step.sync =>
       LET t1 == step.pre[1].currentTime
           t2 == step.pre[2].currentTime
       IN  /\ (t1 - t2 > 10 \/ t2 - t1 > 10) => media[2].currentTime = t1
           /\ (t1 - t2 <= 10 /\ t2 - t1 <= 10) => media[2].currentTime = t2

\* the slave ran ahead by 0.2 s and is set back
C6_Witness ==
    /\ step.sync
    /\ step.pre[1].currentTime = 980
    /\ step.pre[2].currentTime = 1000
    /\ media[2].currentTime = 980

\* C7: a run of the sync block that finds the two paused flags different makes
\* exactly one transport call on the slave: pause() and no play() if the master
\* is paused, play() and no pause() if it is playing; it makes neither if the
\* flags are equal.
C7_PauseMirroring ==
    step.sync =>
       LET p1 == step.pre[1].paused
           p2 == step.pre[2].paused
           plays == Cardinality(CallsOf("sync", 2, "play"))
           pauses == Cardinality(CallsOf("sync", 2, "pause"))
       IN  /\ (p1 # p2 /\ p1) => (pauses = 1 /\ plays = 0)
           /\ (p1 # p2 /\ ~p1) => (plays = 1 /\ pauses = 0)
           /\ (p1 = p2) => (plays = 0 /\ pauses = 0)

\* master paused, slave playing: one pause()
C7_Witness ==
    /\ step.sync
    /\ step.pre[1].paused
    /\ ~step.pre[2].paused
    /\ CallsOf("sync", 2, "pause") # {}
    /\ media[2].paused

\* C8: the autoplay block calls play() on the master at most once in the life
\* of the component; once the master is ready and autoplay is on it has done so
\* exactly once, however many ready events have come.
C8_AutoplayOnce ==
    /\ autoplay_plays <= 1
    /\ (ready_events >= 1 /\ autoplay) => autoplay_plays = 1

\* a second ready event with autoplay on
C8_Witness ==
    /\ last = "handle_video_ready"
    /\ ready_events = 2
    /\ autoplay
    /\ autoplay_plays = 1

\* C9: toggle_playback with both handles gives both elements the same command,
\* play() if the master was paused and pause() if not, the master's first; the
\* second call is made whatever the first one's outcome; if no play() is
\* rejected both elements end with paused equal to the negation of the master's
\* paused flag before.
C9_ToggleBoth ==
    [][(last' = "toggle_playback" /\ video1_el /\ video2_el) =>
          LET c == step'.calls
              op == IF media[1].paused THEN "play" ELSE "pause"
          IN  /\ Len(c) = 2
              /\ c[1].v = 1 /\ c[1].op = op
              /\ c[2].v = 2 /\ c[2].op = op
              /\ (c[1].ok /\ c[2].ok) =>
                    /\ media'[1].paused = ~media[1].paused
                    /\ media'[2].paused = ~media[1].paused]_vars

\* the master's play() was rejected and the slave's was still made
C9_Witness ==
    /\ last = "toggle_playback"
    /\ Len(step.calls) = 2
    /\ step.calls[1] = Call(1, "play", FALSE, TRUE, "toggle")
    /\ step.calls[2] = Call(2, "play", TRUE, TRUE, "toggle")
    /\ media[1].paused
    /\ ~media[2].paused

\* C10: every play() the component calls has its rejection caught.
C10_RejectionsCaught ==
    \A n \in 1 .. Len(step.calls) :
       (step.calls[n].op = "play" /\ ~step.calls[n].ok) => step.calls[n].caught

(***************************************************************************)
(* Rejected play() calls, the toggle and the autoplay latch: claims.       *)
(***************************************************************************)
\* a step other than a toggle or a new element that leaves the master's
\* paused flag as it was
NoNewOccasion ==
    /\ last' \notin {"toggle_playback", "bind_video"}
    /\ media'[1].paused = media[1].paused

RetryStep ==
    \A h \in {1, 2} :
       (rejections[h] > 0 /\ NoNewOccasion) => ControllerPlays(step'.calls, h) = {}

\* C21 as stated: after a play() of the controller on a handle was rejected,
\* the controller calls play() on that handle again only in a new toggle or
\* when the master's paused flag changes.
C21_NoPlayAfterRejection == [][RetryStep]_vars

AutoplayStep ==
    \A n \in 1 .. Len(step'.calls) :
       step'.calls[n].by = "autoplay" => autoplay_plays = 0

MirrorStep ==
    (step'.sync /\ ~step'.pre[1].paused /\ step'.pre[2].paused) =>
       \E n \in ControllerPlays(step'.calls, 2) : step'.calls[n].by = "sync"

\* C21, amended: no call site repeats a rejected play() by itself, and the
\* autoplay block never calls play() a second time, rejected or not; but every
\* later run of the reactive block that finds the master playing and the slave
\* paused calls play() on the slave again, with no toggle and no change of the
\* master's paused flag in between.
C21_OnlyTheMirrorRepeats == [][AutoplayStep /\ MirrorStep]_vars

\* a change of the autoplay prop ran the block, whose play() on the slave was
\* rejected a second time running
C21_Witness ==
    /\ watch
    /\ last = "set_autoplay"
    /\ rejections[2] = 2
    /\ CallsOf("sync", 2, "play") # {}
    /\ autoplay_plays = 1
    /\ rejections[1] = 1

\* Player.svelte's isPlaying, of the master as toggle_playback found it
ActuallyPlaying ==
    /\ media[1].currentTime > 0
    /\ ~media[1].paused
    /\ ~answers'.ended
    /\ answers'.have_data

BothCalled(calls, op) ==
    /\ Len(calls) = 2
    /\ calls[1].v = 1 /\ calls[1].op = op
    /\ calls[2].v = 2 /\ calls[2].op = op

ToggleByPlaying ==
    (last' = "toggle_playback" /\ video1_el /\ video2_el) =>
       BothCalled(step'.calls, IF ActuallyPlaying THEN "pause" ELSE "play")

\* C22 as stated: toggle_playback calls play() on both videos whenever the
\* master is not actually playing (currentTime > 0, not paused, not ended,
\* enough data), a master that is not paused but short of data included, and
\* pause() on both only when it is actually playing.
C22_TogglePlaysUnlessPlaying == [][ToggleByPlaying]_vars

ToggleByPaused ==
    (last' = "toggle_playback" /\ video1_el /\ video2_el) =>
       /\ BothCalled(step'.calls, IF media[1].paused THEN "play" ELSE "pause")
       /\ (~media[1].paused) => (media'[1].paused /\ media'[2].paused)

\* C22, amended: toggle_playback decides on the master's paused flag alone: a
\* master that is not paused gets pause(), and the slave with it, also when it
\* is short of data, at time 0 or ended; a paused master gets play(), and the
\* slave with it.
C22_ToggleReadsPausedOnly == [][ToggleByPaused]_vars

\* the master was not paused, past the start, not ended and short of data when
\* the toggle came: both were paused
C22_Witness ==
    /\ last = "toggle_playback"
    /\ answers = [ended |-> FALSE, have_data |-> FALSE]
    /\ media[1].currentTime > 0
    /\ CallsOf("toggle", 1, "pause") # {}
    /\ CallsOf("toggle", 2, "pause") # {}
    /\ media[1].paused /\ media[2].paused

\* the autoplay block's play() of the last step was rejected
AutoplayRejected ==
    \E n \in 1 .. Len(step.calls) :
       step.calls[n].by = "autoplay" /\ ~step.calls[n].ok

\* C23 as stated: while no autoplay play() has succeeded, because none was
\* made or because the one made was rejected, initial_autoplay_done is false.
C23_LatchOnlyAfterSuccess ==
    /\ autoplay_plays = 0 => ~initial_autoplay_done
    /\ (autoplay_plays = 1 /\ AutoplayRejected) => ~initial_autoplay_done

\* C23, amended: initial_autoplay_done is true exactly when the autoplay block
\* has called play(), whether that call succeeded or was rejected.
C23_LatchIffIssued == initial_autoplay_done <=> autoplay_plays >= 1

\* the one autoplay play() was rejected: the master is still paused and the
\* latch is set
C23_Witness ==
    /\ autoplay_plays = 1
    /\ AutoplayRejected
    /\ media[1].paused
    /\ initial_autoplay_done

\* the autoplay block called play() in the step
AutoplayCalled ==
    \E n \in 1 .. Len(step'.calls) : step'.calls[n].by = "autoplay"

AutoplayGuardStep ==
    /\ AutoplayCalled => (media'[1].loaded /\ autoplay' /\ video1_el')
    /\ (/\ last' = "set_autoplay"
        /\ autoplay'
        /\ video_is_ready
        /\ video1_el
        /\ ~initial_autoplay_done) => AutoplayCalled

\* C24: the autoplay play() is made only on a master element that has signalled
\* loadeddata, with the autoplay prop true and the master's handle bound; when
\* autoplay becomes true after the master is ready, the play() is made in the
\* run of the reactive block that the change brings.
C24_AutoplayGuarded == [][AutoplayGuardStep]_vars

(***************************************************************************)
(* The drag controller and the media synchronisation side by side: claims. *)
(***************************************************************************)
\* what the drag controller writes, and what the synchronisation writes
drag_state == <<position, px, active, drag_start_x, was_dragged>>
sync_state == <<media, initial_autoplay_done>>

HandleOps == {"drag_start", "drag_move", "drag_end", "handle_click"}
SyncOps == {"toggle_playback", "bind_video", "handle_video_ready", "media_time"}

ApartStep ==
    /\ last' \in HandleOps => (step'.calls = <<>> /\ UNCHANGED sync_state)
    /\ last' \in SyncOps => UNCHANGED drag_state

\* C28: no pointer-down, pointer-move or pointer-up on the slider's handle, and
\* no click that follows a press there, calls play() or pause() or writes a
\* currentTime; no playback tick, toggle, bind or autoplay changes the
\* position, px or the drag session.
C28_DragAndSyncApart == [][ApartStep]_vars

\* a press and release on the handle while both videos play, a click
\* dispatched and the browser's click stopped at the handle: they play on
C28_Witness ==
    /\ last = "handle_click"
    /\ video1_el /\ video2_el
    /\ ~media[1].paused /\ ~media[2].paused
    /\ ~was_dragged
    /\ ~active
    /\ position = Fin(57143)

(***************************************************************************)
(* The host's position and the dragged position: claims.                   *)
(***************************************************************************)
HostChanged == index_position' # index_position
ClampChanged ==
    normalised_slider_position(index_position') # normalised_slider_position(index_position)

OverwriteStep ==
    /\ last' \in PointerOps => ~HostChanged
    /\ (last' = "set_index_position" /\ ~HostChanged) => position' = position
    /\ (last' = "set_index_position" /\ HostChanged) =>
          position' = normalised_slider_position(index_position')

\* C30 as stated: no drag changes Index's position prop; the dragged position
\* stays when Index is given the position it already has; every change of
\* Index's position sets the slider's position to clamp(position, 0, 100) / 100.
C30_HostChangeOverwrites == [][OverwriteStep]_vars

LocalStep ==
    /\ last' \in PointerOps => ~HostChanged
    /\ (last' = "set_index_position" /\ ~ClampChanged) => position' = position
    /\ (last' = "set_index_position" /\ ClampChanged) =>
          position' = normalised_slider_position(index_position')

\* C30, amended: no drag changes Index's position prop; the dragged position
\* stays when Index is given a position whose clamped value is the one it had
\* (the same position, or another one beyond the same end of 0 to 100); a
\* position with another clamped value sets the slider's position to
\* clamp(position, 0, 100) / 100.
C30_DragStaysLocal == [][LocalStep]_vars

\* dragged to 4px of 7 while Index's position was 100 or more; Index is then
\* given 130, and the dragged position stays
C30_Witness ==
    /\ last = "set_index_position"
    /\ index_position = 130
    /\ gesture.enabled
    /\ gesture.down_x = 4
    /\ position = Fin(57143)

====
